---- MODULE Spec2Model ----
(***************************************************************************)
(* Model of fortnitepy/message.py (MessageBase, FriendMessage,             *)
(* PartyMessage and their reply coroutines) and of                         *)
(* fortnitepy/ext/commands/errors.py (the command / extension exception    *)
(* hierarchy and the messages its constructors format).                    *)
(*                                                                         *)
(* Python strings are TLA+ strings; str.format / % are concatenation.      *)
(* A Python object that the code only stores (client, friend, party,       *)
(* converter, cooldown ...) is an identifier or a small record of the      *)
(* attributes the code reads from it.                                      *)
(***************************************************************************)
EXTENDS Integers, Sequences, FiniteSets, Bags, TLC

(***************************************************************************)
(* Bounds                                                                  *)
(***************************************************************************)
MaxMsgs == 2
MaxHandlers == 2
MaxSends == 2
MaxClock == 1

MsgIds == 1..MaxMsgs
Handlers == 1..MaxHandlers
Clock == 0..MaxClock

(***************************************************************************)
(* The objects handed to the message constructors by the receive pipeline  *)
(***************************************************************************)
Clients == {"client"}
Friends == {"friend1"}
Members == {"member1"}
Parties == {"party1", "party2"}
InContents == {"!cmd"}
ReplyContents == {"hi", "yo"}
SendValues == {"None"}
SendErrors == {"HTTPException"}

NoMsg == [variant |-> "none"]
NoOutcome == [kind |-> "none", value |-> "none"]
NoRead == [msg |-> 0, attr |-> "none", result |-> "none"]
IdleHandler == [pc |-> "idle", sendOutcome |-> NoOutcome, outcome |-> NoOutcome]

VARIABLES
    now,        \* datetime.datetime.utcnow(): the wall clock
    msgs,       \* the message instances: their slots
    ctor,       \* history: the slots as __init__ left them
    hs,         \* the command handlers (coroutines) and where each stands
    sends,      \* the invocations of the send primitives, in order
    calls,      \* history: the calls of reply, in order, with the receiver's slots
    lastAccess, \* the last attribute access a holder made on a message
    err,        \* the result of the last exception constructor call
    inp         \* history: the arguments of that call

vars == <<now, msgs, ctor, hs, sends, calls, lastAccess, err, inp>>
msgVars == <<now, msgs, ctor, hs, sends, calls, lastAccess>>

(***************************************************************************)
(* message.py                                                              *)
(***************************************************************************)

\* MessageBase.__init__: the four slots; created_at is read off the clock
MessageBase(variant, client, author, content, clock) ==
    [variant |-> variant, _client |-> client, _author |-> author, _content |-> content,
     _created_at |-> clock]

\* FriendMessage.__init__
FriendMessage(client, author, content, clock) ==
    MessageBase("friend", client, author, content, clock)

\* PartyMessage.__init__: the base slots and the public slot 'party'
PartyMessage(client, party, author, content, clock) ==
    LET base == MessageBase("party", client, author, content, clock)
    IN  [variant |-> base.variant, _client |-> base._client, _author |-> base._author,
         _content |-> base._content, _created_at |-> base._created_at, party |-> party]

\* the property getters client, author, content, created_at, and the plain
\* attribute party of a PartyMessage
GetAttr(msg, attr) ==
    CASE attr = "client" -> [ok |-> TRUE, value |-> msg._client]
      [] attr = "author" -> [ok |-> TRUE, value |-> msg._author]
      [] attr = "content" -> [ok |-> TRUE, value |-> msg._content]
      [] attr = "created_at" -> [ok |-> TRUE, value |-> msg._created_at]
      [] attr = "party" /\ msg.variant = "party" -> [ok |-> TRUE, value |-> msg.party]
      [] OTHER -> [ok |-> FALSE, value |-> "AttributeError"]

\* which attribute names an assignment from outside the class can rebind:
\* client, author, content and created_at are properties without a setter
\* (over slots whose leading underscore keeps them to the class), party is
\* an ordinary public slot of PartyMessage and of no other class
Assignable(msg, attr) == attr = "party" /\ msg.variant = "party"

\* the send primitive a reply awaits: self.author.send / self.party.send
ReplyTarget(msg) ==
    IF msg.variant = "friend"
    THEN [kind |-> "author", id |-> GetAttr(msg, "author").value]
    ELSE [kind |-> "party", id |-> msg.party]

\* the send invocations one call of reply makes
ReplySends(h, m, content) ==
    << [by |-> h, msg |-> m, target |-> ReplyTarget(msgs[m]), content |-> content] >>

\* a reply that swallowed the exception of send
ReplyOutcomeSwallow(sendOutcome) ==
    IF sendOutcome.kind = "raise" THEN [kind |-> "return", value |-> "None"] ELSE sendOutcome

\* 'return await <send>': what reply hands its caller for an outcome of send
ReplyOutcome(sendOutcome) == sendOutcome

\* a reply that waited for the pending sends of the others
CanReplySerialized(h) == hs[h].pc = "idle" /\ \A g \in Handlers : hs[g].pc # "awaiting"

\* when a handler can enter reply: it is not inside another await
CanReply(h) == hs[h].pc = "idle"

Constructed(m) == msgs[m].variant # "none"

Init ==
    /\ now = 0
    /\ msgs = [m \in MsgIds |-> NoMsg]
    /\ ctor = [m \in MsgIds |-> NoMsg]
    /\ hs = [h \in Handlers |-> IdleHandler]
    /\ sends = << >>
    /\ calls = << >>
    /\ lastAccess = NoRead
    /\ err = [ok |-> FALSE, kind |-> "none"]
    /\ inp = [kind |-> "none"]

\* the wall clock moves (not necessarily forward)
Tick ==
    /\ \E t \in Clock \ {now} : now' = t
    /\ UNCHANGED <<msgs, ctor, hs, sends, calls, lastAccess, err, inp>>

\* the receive pipeline constructs a FriendMessage
NewFriendMessage(m) ==
    /\ ~Constructed(m)
    /\ \A k \in MsgIds : k < m => Constructed(k)
    /\ \E c \in Clients, a \in Friends, t \in InContents :
          /\ msgs' = [msgs EXCEPT ![m] = FriendMessage(c, a, t, now)]
          /\ ctor' = [ctor EXCEPT ![m] = FriendMessage(c, a, t, now)]
    /\ UNCHANGED <<now, hs, sends, calls, lastAccess, err, inp>>

\* the receive pipeline constructs a PartyMessage
NewPartyMessage(m) ==
    /\ ~Constructed(m)
    /\ \A k \in MsgIds : k < m => Constructed(k)
    /\ \E c \in Clients, p \in Parties, a \in Members, t \in InContents :
          /\ msgs' = [msgs EXCEPT ![m] = PartyMessage(c, p, a, t, now)]
          /\ ctor' = [ctor EXCEPT ![m] = PartyMessage(c, p, a, t, now)]
    /\ UNCHANGED <<now, hs, sends, calls, lastAccess, err, inp>>

\* a holder reads an attribute of a message
ReadAttr(m, attr) ==
    /\ Constructed(m)
    /\ lastAccess' = [msg |-> m, attr |-> attr, result |-> GetAttr(msgs[m], attr)]
    /\ UNCHANGED <<now, msgs, ctor, hs, sends, calls, err, inp>>

\* a holder assigns to an attribute of a message: 'msg.<attr> = value'
SetAttr(m, attr, value) ==
    /\ Constructed(m)
    /\ IF Assignable(msgs[m], attr)
       THEN msgs' = [msgs EXCEPT ![m].party = value]
       ELSE msgs' = msgs    \* AttributeError: nothing is rebound
    /\ UNCHANGED <<now, ctor, hs, sends, calls, lastAccess, err, inp>>

\* a handler calls 'await message.reply(content)': the coroutine runs up to
\* the await of the send primitive and suspends there
Reply(h, m, content) ==
    /\ CanReply(h)
    /\ Constructed(m)
    /\ Len(sends) < MaxSends
    /\ sends' = sends \o ReplySends(h, m, content)
    /\ calls' = Append(calls, [by |-> h, msg |-> m, content |-> content, self |-> msgs[m]])
    /\ hs' = [hs EXCEPT ![h].pc = "awaiting"]
    /\ UNCHANGED <<now, msgs, ctor, lastAccess, err, inp>>

\* the awaited send returns a value: reply returns
SendReturn(h, v) ==
    /\ hs[h].pc = "awaiting"
    /\ LET so == [kind |-> "return", value |-> v] IN
       hs' = [hs EXCEPT ![h].pc = "done", ![h].sendOutcome = so, ![h].outcome = ReplyOutcome(so)]
    /\ UNCHANGED <<now, msgs, ctor, sends, calls, lastAccess, err, inp>>

\* the awaited send raises: the exception leaves reply
SendRaise(h, e) ==
    /\ hs[h].pc = "awaiting"
    /\ LET so == [kind |-> "raise", value |-> e] IN
       hs' = [hs EXCEPT ![h].pc = "done", ![h].sendOutcome = so, ![h].outcome = ReplyOutcome(so)]
    /\ UNCHANGED <<now, msgs, ctor, sends, calls, lastAccess, err, inp>>

\* the handler's task is cancelled while reply is suspended at the await:
\* CancelledError is thrown into the coroutine and leaves it
Cancel(h) ==
    /\ hs[h].pc = "awaiting"
    /\ hs' = [hs EXCEPT ![h].pc = "cancelled",
                        ![h].outcome = [kind |-> "raise", value |-> "CancelledError"]]
    /\ UNCHANGED <<now, msgs, ctor, sends, calls, lastAccess, err, inp>>

\* the handler is done with the outcome and may issue another reply
HandlerExit(h) ==
    /\ hs[h].pc \in {"done", "cancelled"}
    /\ hs' = [hs EXCEPT ![h] = IdleHandler]
    /\ UNCHANGED <<now, msgs, ctor, sends, calls, lastAccess, err, inp>>

AttrNames == {"client", "author", "content", "created_at", "party"}

\* messages, the clock and the attribute accesses of their holders
Next ==
    \/ Tick
    \/ \E m \in MsgIds : NewFriendMessage(m)
    \/ \E m \in MsgIds : NewPartyMessage(m)
    \/ \E m \in MsgIds, a \in AttrNames : ReadAttr(m, a)
    \/ \E m \in MsgIds, a \in AttrNames, v \in Parties : SetAttr(m, a, v)

Spec == Init /\ [][Next]_vars

\* messages and the handlers that reply to them
NextReply ==
    \/ \E m \in MsgIds : NewFriendMessage(m)
    \/ \E m \in MsgIds : NewPartyMessage(m)
    \/ \E m \in MsgIds, a \in AttrNames, v \in Parties : SetAttr(m, a, v)
    \/ \E h \in Handlers, m \in MsgIds, c \in ReplyContents : Reply(h, m, c)
    \/ \E h \in Handlers, v \in SendValues : SendReturn(h, v)
    \/ \E h \in Handlers, e \in SendErrors : SendRaise(h, e)
    \/ \E h \in Handlers : Cancel(h)
    \/ \E h \in Handlers : HandlerExit(h)

SpecReply == Init /\ [][NextReply]_vars

(***************************************************************************)
(* Properties of message.py                                                *)
(***************************************************************************)
Range(f) == {f[i] : i \in DOMAIN f}
SeqToBag(f) == [x \in Range(f) |-> Cardinality({i \in DOMAIN f : f[i] = x})]

\* C1: every send a reply made went to the author the message was
\* constructed with if the message is a FriendMessage (and to no party), and
\* to the party the message was constructed with if it is a PartyMessage
\* (and never to its author).
C1_RoutesToConstructedTarget ==
    \A i \in DOMAIN sends :
        LET s == sends[i]
            c == ctor[s.msg]
        IN  IF c.variant = "friend"
            THEN s.target = [kind |-> "author", id |-> c._author]
            ELSE s.target = [kind |-> "party", id |-> c.party]

\* C2: a call of reply makes exactly one send, with the content it was
\* given; the outcome of reply is the outcome of that send (the value it
\* returned or the exception it raised, as it is); a cancelled reply ends
\* with CancelledError; no send is made but the one of each call.
C2_ReplyForwardsOnce ==
    /\ Len(sends) = Len(calls)
    /\ \A i \in DOMAIN sends :
          /\ sends[i].by = calls[i].by
          /\ sends[i].msg = calls[i].msg
          /\ sends[i].content = calls[i].content
    /\ \A h \in Handlers :
          /\ hs[h].pc = "done" => hs[h].outcome = hs[h].sendOutcome
          /\ hs[h].pc = "cancelled" =>
                hs[h].outcome = [kind |-> "raise", value |-> "CancelledError"]
          /\ hs[h].pc \in {"idle", "awaiting"} => hs[h].outcome = NoOutcome

\* a send raised, the handler got that exception from reply, and no other
\* send followed
C2_Witness ==
    \E h \in Handlers :
        /\ hs[h].pc = "done"
        /\ hs[h].sendOutcome = [kind |-> "raise", value |-> "HTTPException"]
        /\ Len(sends) = 1
        /\ sends[1].by = h

\* C3: the slots of a message are, in every state, the ones its constructor
\* set, and a read of client, author, content, created_at or party returns
\* the value given at construction.
C3_MessageImmutable ==
    /\ \A m \in MsgIds : Constructed(m) => msgs[m] = ctor[m]
    /\ (lastAccess.attr # "none" /\ lastAccess.result.ok) =>
          lastAccess.result = GetAttr(ctor[lastAccess.msg], lastAccess.attr)

\* the target reply is to use for a call, from the receiver as it was when
\* reply was called
ExpectedTarget(self) ==
    IF self.variant = "friend"
    THEN [kind |-> "author", id |-> self._author]
    ELSE [kind |-> "party", id |-> self.party]

\* C4: a pending send of one handler stops no other handler: a handler that
\* is not inside a reply can start one whatever the others are waiting for,
\* and a pending send can complete whatever the others do; the sends made
\* are, as a multiset of (target, content), the calls of reply made.
C4_RepliesIndependent ==
    /\ \A h \in Handlers :
          (hs[h].pc = "idle" /\ Len(sends) < MaxSends /\ Constructed(1)) =>
              ENABLED (\E m \in MsgIds, c \in ReplyContents : Reply(h, m, c))
    /\ \A h \in Handlers :
          hs[h].pc = "awaiting" => ENABLED (\E v \in SendValues : SendReturn(h, v))
    /\ SeqToBag([i \in DOMAIN sends |-> <<sends[i].target, sends[i].content>>])
         = SeqToBag([i \in DOMAIN calls |-> <<ExpectedTarget(calls[i].self), calls[i].content>>])

\* the first reply is still waiting for its send while a reply another
\* handler started later, to another kind of target, has completed
C4_Witness ==
    /\ Len(sends) = 2
    /\ sends[1].by # sends[2].by
    /\ sends[1].target.kind # sends[2].target.kind
    /\ sends[1].content # sends[2].content
    /\ hs[sends[1].by].pc = "awaiting"
    /\ hs[sends[2].by].pc = "done"

(***************************************************************************)
(* ext/commands/errors.py                                                  *)
(***************************************************************************)
MaxNumber == 3
MaxConverters == 3

\* an argument of a call: left out, None, or a string
Omitted == [given |-> FALSE, some |-> FALSE, v |-> ""]
None == [given |-> TRUE, some |-> FALSE, v |-> ""]
Str(s) == [given |-> TRUE, some |-> TRUE, v |-> s]

\* Python truth of an optional string: 'message or <default>'
Truthy(a) == a.some /\ a.v # ""
\* '{!r}' of a string or of None
Repr(a) == IF a.some THEN "'" \o a.v \o "'" ELSE "None"
\* '{0.__class__.__name__}: {0}' of an exception
ClassAndText(e) == e.cls \o ": " \o e.text
\* repr of an exception and of a converter, as a tuple of args shows them
ReprException(e) == e.cls \o "('" \o e.text \o "')"
ReprConverter(c) == IF c.hasName THEN "<class '" \o c.name \o "'>" ELSE "<" \o c.cls \o " object>"
\* '{:.2f}' of a number of seconds given in hundredths
Format2f(h) ==
    ToString(h \div 100) \o "." \o (IF h % 100 < 10 THEN "0" ELSE "") \o ToString(h % 100)

\* str.join
RECURSIVE Join(_, _)
Join(sep, names) ==
    IF Len(names) = 0 THEN ""
    ELSE IF Len(names) = 1 THEN names[1]
    ELSE names[1] \o sep \o Join(sep, Tail(names))

\* the class statements: each class and the class it inherits from
Base ==
    [ CommandError |-> "FortniteException",
      UserInputError |-> "CommandError",
      CommandNotFound |-> "CommandError",
      MissingRequiredArgument |-> "UserInputError",
      TooManyArguments |-> "UserInputError",
      BadArgument |-> "UserInputError",
      CheckFailure |-> "UserInputError",
      CheckAnyFailure |-> "CheckFailure",
      PrivateMessageOnly |-> "CheckFailure",
      PartyMessageOnly |-> "CheckFailure",
      NotOwner |-> "CheckFailure",
      DisabledCommand |-> "CommandError",
      CommandInvokeError |-> "CommandError",
      CommandOnCooldown |-> "CommandError",
      MaxConcurrencyReached |-> "CommandError",
      ConversionError |-> "CommandError",
      BadUnionArgument |-> "UserInputError",
      ArgumentParsingError |-> "UserInputError",
      UnexpectedQuoteError |-> "ArgumentParsingError",
      InvalidEndOfQuotedStringError |-> "ArgumentParsingError",
      ExpectedClosingQuoteError |-> "ArgumentParsingError",
      ExtensionError |-> "FortniteException",
      ExtensionAlreadyLoaded |-> "ExtensionError",
      ExtensionNotLoaded |-> "ExtensionError",
      ExtensionMissingEntryPoint |-> "ExtensionError",
      ExtensionFailed |-> "ExtensionError",
      ExtensionNotFound |-> "ExtensionError" ]

Kinds == DOMAIN Base

\* isinstance(<instance of kind>, <class>): 'except <class>' matches it
RECURSIVE IsInstance(_, _)
IsInstance(kind, class) ==
    \/ kind = class
    \/ kind \in Kinds /\ IsInstance(Base[kind], class)

\* a class no other class inherits from
Leaf(kind) == kind \in Kinds /\ ~\E k \in Kinds : Base[k] = kind

\* str() of an exception, from the args its base class was initialised with
ExcStr(args) ==
    IF Len(args) = 0 THEN ""
    ELSE IF Len(args) = 1 THEN args[1]
    ELSE "(" \o Join(", ", args) \o ")"

Message(e) == ExcStr(e.args)

\* the wrong variant: the message is handed on even when it is None
CommandErrorInitAlways(message) == << IF message.some THEN message.v ELSE "None" >>

\* CommandError.__init__(message=None): the args handed to the base class
CommandErrorInit(message) ==
    IF message.some THEN << message.v >> ELSE << >>

\* the classes that take CommandError.__init__ as it is
CommandError(kind, message) ==
    [ok |-> TRUE, kind |-> kind, args |-> CommandErrorInit(message)]

\* 'self.<attribute> = ...' on an instance the base __init__ has set up
WithAttrs(e, attrs) ==
    [f \in DOMAIN e \cup DOMAIN attrs |-> IF f \in DOMAIN attrs THEN attrs[f] ELSE e[f]]

MissingRequiredArgument(param) ==
    WithAttrs(CommandError("MissingRequiredArgument",
                 Str(param.name \o " is a required argument that is missing.")),
              [param |-> param])

CheckAnyFailure(checks, errors) ==
    WithAttrs(CommandError("CheckAnyFailure", Str("You do not have permission to run this command.")),
              [checks |-> checks, errors |-> errors])

PrivateMessageOnly(message) ==
    CommandError("PrivateMessageOnly",
                 IF Truthy(message) THEN message
                 ELSE Str("This command can only be used in private messages."))

PartyMessageOnly(message) ==
    CommandError("PartyMessageOnly",
                 IF Truthy(message) THEN message
                 ELSE Str("This command can only be used in party messages."))

CommandInvokeError(e) ==
    WithAttrs(CommandError("CommandInvokeError", Str("Command raised an exception: " \o ClassAndText(e))),
              [original |-> e])

CommandOnCooldown(cooldown, retry_after) ==
    WithAttrs(CommandError("CommandOnCooldown",
                 Str("You are on cooldown. Try again in " \o Format2f(retry_after) \o "s")),
              [cooldown |-> cooldown, retry_after |-> retry_after])

\* the wrong variant: the plural chosen by 'number != 1'
MaxConcurrencyReachedNotOne(number, per) ==
    LET suffix == IF per.name # "default" THEN "per " \o per.name ELSE "globally"
        fmt == IF number # 1 THEN ToString(number) \o " times " \o suffix
               ELSE ToString(number) \o " time " \o suffix
    IN  WithAttrs(CommandError("MaxConcurrencyReached",
                     Str("Too many people using this command. It can only be used "
                         \o fmt \o " concurrently.")),
                  [number |-> number, per |-> per])

MaxConcurrencyReached(number, per) ==
    LET name == per.name
        suffix == IF per.name # "default" THEN "per " \o name ELSE "globally"
        fmt == IF number > 1 THEN ToString(number) \o " times " \o suffix
               ELSE ToString(number) \o " time " \o suffix
    IN  WithAttrs(CommandError("MaxConcurrencyReached",
                     Str("Too many people using this command. It can only be used "
                         \o fmt \o " concurrently.")),
                  [number |-> number, per |-> per])

\* ConversionError.__init__ calls no base __init__: the args are those the
\* instance was created with
ConversionError(converter, original) ==
    [ok |-> TRUE, kind |-> "ConversionError",
     args |-> << ReprConverter(converter), ReprException(original) >>,
     converter |-> converter, original |-> original]

\* _get_name: x.__name__, or x.__class__.__name__ when x has no __name__
GetName(x) == IF x.hasName THEN x.name ELSE x.cls

\* the wrong variant: the Oxford form from two names on
BadUnionArgumentFromTwo(param, converters, errors) ==
    LET to_string == [i \in DOMAIN converters |-> GetName(converters[i])]
        fmt == IF Len(to_string) >= 2
               THEN Join(", ", SubSeq(to_string, 1, Len(to_string) - 1))
                    \o ", or " \o to_string[Len(to_string)]
               ELSE Join(" or ", to_string)
    IN  WithAttrs(CommandError("BadUnionArgument",
                     Str("Could not convert \"" \o param.name \o "\" into " \o fmt \o ".")),
                  [param |-> param, converters |-> converters, errors |-> errors])

BadUnionArgument(param, converters, errors) ==
    LET to_string == [i \in DOMAIN converters |-> GetName(converters[i])]
        fmt == IF Len(to_string) > 2
               THEN Join(", ", SubSeq(to_string, 1, Len(to_string) - 1))
                    \o ", or " \o to_string[Len(to_string)]
               ELSE Join(" or ", to_string)
    IN  WithAttrs(CommandError("BadUnionArgument",
                     Str("Could not convert \"" \o param.name \o "\" into " \o fmt \o ".")),
                  [param |-> param, converters |-> converters, errors |-> errors])

UnexpectedQuoteError(quote) ==
    WithAttrs(CommandError("UnexpectedQuoteError",
                 Str("Unexpected quote mark, " \o Repr(Str(quote)) \o ", in non-quoted string")),
              [quote |-> quote])

InvalidEndOfQuotedStringError(char) ==
    WithAttrs(CommandError("InvalidEndOfQuotedStringError",
                 Str("Expected space after closing quotation but received " \o Repr(Str(char)))),
              [char |-> char])

ExpectedClosingQuoteError(close_quote) ==
    WithAttrs(CommandError("ExpectedClosingQuoteError", Str("Expected closing " \o close_quote \o ".")),
              [close_quote |-> close_quote])

TypeError(kind) == [ok |-> FALSE, kind |-> kind, error |-> "TypeError"]

\* the wrong variant: the attribute is set from the other argument
ExtensionErrorNameFromMessage(kind, message, name) ==
    IF ~name.given THEN TypeError(kind)
    ELSE [ok |-> TRUE, kind |-> kind, name |-> message,
          args |-> << IF Truthy(message) THEN message.v
                      ELSE "Extension " \o Repr(name) \o " had an error." >>]

\* ExtensionError.__init__(message=None, *, name): name has no default
ExtensionError(kind, message, name) ==
    IF ~name.given THEN TypeError(kind)
    ELSE [ok |-> TRUE, kind |-> kind, name |-> name,
          args |-> << IF Truthy(message) THEN message.v
                      ELSE "Extension " \o Repr(name) \o " had an error." >>]

ExtensionAlreadyLoaded(name) ==
    ExtensionError("ExtensionAlreadyLoaded",
                   Str("Extension " \o Repr(name) \o " is already loaded."), name)

ExtensionNotLoaded(name) ==
    ExtensionError("ExtensionNotLoaded",
                   Str("Extension " \o Repr(name) \o " has not been loaded."), name)

ExtensionMissingEntryPoint(name) ==
    ExtensionError("ExtensionMissingEntryPoint",
                   Str("Extension " \o Repr(name) \o " has no 'setup' function."), name)

ExtensionFailed(name, original) ==
    IF ~name.given THEN TypeError("ExtensionFailed")
    ELSE WithAttrs(ExtensionError("ExtensionFailed",
                        Str("Extension " \o Repr(name) \o " raised an error: "
                            \o ClassAndText(original)), name),
                   [original |-> original])

ExtensionNotFound(name) ==
    ExtensionError("ExtensionNotFound",
                   Str("Extension " \o Repr(name) \o " could not be loaded."), name)

(***************************************************************************)
(* The payloads the dispatcher, the converters, the checks, the cooldowns  *)
(* and the extension loader hand to the constructors                       *)
(***************************************************************************)
Messages == {Omitted, None, Str(""), Str("boom")}
Names == {Omitted, None, Str(""), Str("foo")}
Params == {[name |-> "arg"], [name |-> "user"]}
Exceptions == {[cls |-> "ValueError", text |-> "bad"], [cls |-> "KeyError", text |-> ""]}
CheckLists == {<< >>, <<"is_owner">>, <<"is_owner", "in_party">>}
ErrorLists == {<< >>, <<[cls |-> "CheckFailure", text |-> "no"]>>,
               <<[cls |-> "BadArgument", text |-> "x"], [cls |-> "CheckFailure", text |-> "no"]>>}
Cooldowns == {[rate |-> 1, per |-> 5]}
RetryAfters == {0, 5, 150}
Numbers == (0 - 1)..MaxNumber
Buckets == {[name |-> "default"], [name |-> "user"], [name |-> "Default"]}
Converters == {[hasName |-> TRUE, name |-> "int", cls |-> "type"],
               [hasName |-> TRUE, name |-> "Friend", cls |-> "type"],
               [hasName |-> FALSE, name |-> "", cls |-> "MemberConverter"]}
ConverterTuples == UNION {[1..n -> Converters] : n \in 0..MaxConverters}
Quotes == {"\"", "x"}

\* the classes whose body is 'pass': they take CommandError.__init__
PlainKinds == {"CommandError", "UserInputError", "CommandNotFound", "TooManyArguments",
               "BadArgument", "CheckFailure", "NotOwner", "DisabledCommand",
               "ArgumentParsingError"}

NewPlain(kind) ==
    \E m \in Messages : (/\ err' = CommandError(kind, m)
         /\ inp' = [kind |-> kind, message |-> m]
         /\ UNCHANGED msgVars)

NewMissingRequiredArgument ==
    \E p \in Params :
        (/\ err' = MissingRequiredArgument(p)
         /\ inp' = [kind |-> "MissingRequiredArgument", param |-> p]
         /\ UNCHANGED msgVars)

NewCheckAnyFailure ==
    \E c \in CheckLists, e \in ErrorLists :
        (/\ err' = CheckAnyFailure(c, e)
         /\ inp' = [kind |-> "CheckAnyFailure", checks |-> c, errors |-> e]
         /\ UNCHANGED msgVars)

NewPrivateMessageOnly ==
    \E m \in Messages :
        (/\ err' = PrivateMessageOnly(m)
         /\ inp' = [kind |-> "PrivateMessageOnly", message |-> m]
         /\ UNCHANGED msgVars)

NewPartyMessageOnly ==
    \E m \in Messages :
        (/\ err' = PartyMessageOnly(m)
         /\ inp' = [kind |-> "PartyMessageOnly", message |-> m]
         /\ UNCHANGED msgVars)

NewCommandInvokeError ==
    \E e \in Exceptions :
        (/\ err' = CommandInvokeError(e)
         /\ inp' = [kind |-> "CommandInvokeError", original |-> e]
         /\ UNCHANGED msgVars)

NewCommandOnCooldown ==
    \E c \in Cooldowns, r \in RetryAfters :
        (/\ err' = CommandOnCooldown(c, r)
         /\ inp' = [kind |-> "CommandOnCooldown", cooldown |-> c, retry_after |-> r]
         /\ UNCHANGED msgVars)

NewMaxConcurrencyReached ==
    \E n \in Numbers, b \in Buckets :
        (/\ err' = MaxConcurrencyReached(n, b)
         /\ inp' = [kind |-> "MaxConcurrencyReached", number |-> n, per |-> b]
         /\ UNCHANGED msgVars)

NewConversionError ==
    \E c \in Converters, e \in Exceptions :
        (/\ err' = ConversionError(c, e)
         /\ inp' = [kind |-> "ConversionError", converter |-> c, original |-> e]
         /\ UNCHANGED msgVars)

NewBadUnionArgument ==
    \E p \in Params, cs \in ConverterTuples, es \in ErrorLists :
        (/\ err' = BadUnionArgument(p, cs, es)
         /\ inp' = [kind |-> "BadUnionArgument", param |-> p, converters |-> cs, errors |-> es]
         /\ UNCHANGED msgVars)

NewUnexpectedQuoteError ==
    \E q \in Quotes :
        (/\ err' = UnexpectedQuoteError(q)
         /\ inp' = [kind |-> "UnexpectedQuoteError", quote |-> q]
         /\ UNCHANGED msgVars)

NewInvalidEndOfQuotedStringError ==
    \E q \in Quotes :
        (/\ err' = InvalidEndOfQuotedStringError(q)
         /\ inp' = [kind |-> "InvalidEndOfQuotedStringError", char |-> q]
         /\ UNCHANGED msgVars)

NewExpectedClosingQuoteError ==
    \E q \in Quotes :
        (/\ err' = ExpectedClosingQuoteError(q)
         /\ inp' = [kind |-> "ExpectedClosingQuoteError", close_quote |-> q]
         /\ UNCHANGED msgVars)

NewExtensionError ==
    \E m \in Messages, n \in Names :
        (/\ err' = ExtensionError("ExtensionError", m, n)
         /\ inp' = [kind |-> "ExtensionError", message |-> m, name |-> n]
         /\ UNCHANGED msgVars)

NewExtensionAlreadyLoaded ==
    \E n \in Names :
        (/\ err' = ExtensionAlreadyLoaded(n)
         /\ inp' = [kind |-> "ExtensionAlreadyLoaded", name |-> n]
         /\ UNCHANGED msgVars)

NewExtensionNotLoaded ==
    \E n \in Names :
        (/\ err' = ExtensionNotLoaded(n)
         /\ inp' = [kind |-> "ExtensionNotLoaded", name |-> n]
         /\ UNCHANGED msgVars)

NewExtensionMissingEntryPoint ==
    \E n \in Names :
        (/\ err' = ExtensionMissingEntryPoint(n)
         /\ inp' = [kind |-> "ExtensionMissingEntryPoint", name |-> n]
         /\ UNCHANGED msgVars)

NewExtensionFailed ==
    \E n \in Names, e \in Exceptions :
        (/\ err' = ExtensionFailed(n, e)
         /\ inp' = [kind |-> "ExtensionFailed", name |-> n, original |-> e]
         /\ UNCHANGED msgVars)

NewExtensionNotFound ==
    \E n \in Names :
        (/\ err' = ExtensionNotFound(n)
         /\ inp' = [kind |-> "ExtensionNotFound", name |-> n]
         /\ UNCHANGED msgVars)

NextErr ==
    \/ \E k \in PlainKinds : NewPlain(k)
    \/ NewMissingRequiredArgument
    \/ NewCheckAnyFailure
    \/ NewPrivateMessageOnly
    \/ NewPartyMessageOnly
    \/ NewCommandInvokeError
    \/ NewCommandOnCooldown
    \/ NewMaxConcurrencyReached
    \/ NewConversionError
    \/ NewBadUnionArgument
    \/ NewUnexpectedQuoteError
    \/ NewInvalidEndOfQuotedStringError
    \/ NewExpectedClosingQuoteError
    \/ NewExtensionError
    \/ NewExtensionAlreadyLoaded
    \/ NewExtensionNotLoaded
    \/ NewExtensionMissingEntryPoint
    \/ NewExtensionFailed
    \/ NewExtensionNotFound

SpecErr == Init /\ [][NextErr]_vars

(***************************************************************************)
(* Properties of ext/commands/errors.py                                    *)
(***************************************************************************)
Contains(s, t) == \E i \in 0..(Len(s) - Len(t)) : SubSeq(s, i + 1, i + Len(t)) = t

ExtensionKinds == {"ExtensionError", "ExtensionAlreadyLoaded", "ExtensionNotLoaded",
                   "ExtensionMissingEntryPoint", "ExtensionFailed", "ExtensionNotFound"}
CommandKinds == Kinds \ ExtensionKinds
UserInputKinds == {"UserInputError", "MissingRequiredArgument", "TooManyArguments",
                   "BadArgument", "BadUnionArgument", "ArgumentParsingError",
                   "UnexpectedQuoteError", "InvalidEndOfQuotedStringError",
                   "ExpectedClosingQuoteError"}
PermissionKinds == {"CheckFailure", "CheckAnyFailure", "PrivateMessageOnly",
                    "PartyMessageOnly", "NotOwner"}
\* the leaf kinds whose constructor formats no message of its own
PayloadLessKinds == {"CommandNotFound", "TooManyArguments", "BadArgument", "NotOwner",
                     "DisabledCommand"}

\* the payload of the last call is valid: a name, where one is taken, is
\* given and is not None
ValidPayload == "name" \in DOMAIN inp => (inp.name.given /\ inp.name.some)

C6_ExtensionNameRequired ==
    err.kind \in ExtensionKinds =>
        IF ~inp.name.given \/ ~inp.name.some
        THEN ~err.ok
        ELSE err.ok =>
               /\ err.name = inp.name
               /\ ("message" \notin DOMAIN inp \/ ~Truthy(inp.message)) =>
                      Contains(Message(err), inp.name.v)

\* C7: an instance is matched by UserInputError exactly if its kind is a
\* user-input kind, and then it is no permission kind; by CommandError
\* exactly if it is a command kind; by ExtensionError exactly if it is an
\* extension kind.
C7_BranchesPartition ==
    err.ok =>
        /\ IsInstance(err.kind, "UserInputError") <=> err.kind \in UserInputKinds
        /\ IsInstance(err.kind, "UserInputError") => err.kind \notin PermissionKinds
        /\ IsInstance(err.kind, "CommandError") <=> err.kind \in CommandKinds
        /\ IsInstance(err.kind, "ExtensionError") <=> err.kind \in ExtensionKinds

\* the payload attributes of each kind
PayloadFields(kind) ==
    CASE kind = "MissingRequiredArgument" -> {"param"}
      [] kind = "CheckAnyFailure" -> {"checks", "errors"}
      [] kind = "CommandInvokeError" -> {"original"}
      [] kind = "CommandOnCooldown" -> {"cooldown", "retry_after"}
      [] kind = "MaxConcurrencyReached" -> {"number", "per"}
      [] kind = "ConversionError" -> {"converter", "original"}
      [] kind = "BadUnionArgument" -> {"param", "converters", "errors"}
      [] kind = "UnexpectedQuoteError" -> {"quote"}
      [] kind = "InvalidEndOfQuotedStringError" -> {"char"}
      [] kind = "ExpectedClosingQuoteError" -> {"close_quote"}
      [] kind = "ExtensionFailed" -> {"name", "original"}
      [] kind \in ExtensionKinds \ {"ExtensionFailed"} -> {"name"}
      [] OTHER -> {}

\* C8: every payload attribute of a constructed instance is there and is the
\* value passed to the constructor.
C8_PayloadRoundTrip ==
    err.ok => \A f \in PayloadFields(err.kind) : f \in DOMAIN err /\ err[f] = inp[f]

\* an ExtensionFailed that wraps a cause, and keeps it
C8_Witness ==
    /\ err.kind = "ExtensionFailed"
    /\ err.ok
    /\ inp.name = Str("foo")
    /\ inp.original = [cls |-> "ValueError", text |-> "bad"]
    /\ err.original = inp.original

\* C9: the message of MaxConcurrencyReached(number, per) is built from
\* "globally" if per.name is "default" and "per <name>" otherwise, after
\* "<number> times" if number > 1 and "<number> time" otherwise.
C9_ConcurrencyMessage ==
    err.kind = "MaxConcurrencyReached" =>
        LET suffix == IF inp.per.name = "default" THEN "globally" ELSE "per " \o inp.per.name
            unit == IF inp.number > 1 THEN " times " ELSE " time "
        IN  /\ Message(err) = "Too many people using this command. It can only be used "
                                \o ToString(inp.number) \o unit \o suffix \o " concurrently."
            /\ (inp.number = 1 /\ inp.per.name = "default") =>
                  Contains(Message(err), "used 1 time globally")
            /\ (inp.number = 3 /\ inp.per.name = "user") =>
                  Contains(Message(err), "used 3 times per user")

\* a number that is not 1 and takes the singular, with a named bucket
C9_Witness ==
    /\ err.kind = "MaxConcurrencyReached"
    /\ inp.number = 0
    /\ inp.per.name = "user"
    /\ Contains(Message(err), "used 0 time per user")

\* the names n[1..k] joined by ", "
RECURSIVE C10_Commas(_, _)
C10_Commas(n, k) == IF k = 1 THEN n[1] ELSE C10_Commas(n, k - 1) \o ", " \o n[k]

\* C10: the message of BadUnionArgument names the converters in the order
\* given, each by its declared name or else by the class name of the
\* instance: the name alone for one converter, "A or B" for two, and for
\* more the names before the last joined by ", ", then ", or <last>".
C10_UnionMessage ==
    (err.kind = "BadUnionArgument" /\ Len(inp.converters) >= 1) =>
        LET cs == inp.converters
            k == Len(cs)
            n == [i \in 1..k |-> IF cs[i].hasName THEN cs[i].name ELSE cs[i].cls]
            list == IF k = 1 THEN n[1]
                    ELSE IF k = 2 THEN n[1] \o " or " \o n[2]
                    ELSE C10_Commas(n, k - 1) \o ", or " \o n[k]
        IN  Message(err) = "Could not convert \"" \o inp.param.name \o "\" into " \o list \o "."

\* three converters, the last one an instance without a declared name
C10_Witness ==
    /\ err.kind = "BadUnionArgument"
    /\ Len(inp.converters) = 3
    /\ ~inp.converters[3].hasName
    /\ inp.converters[1].hasName
    /\ Message(err) = "Could not convert \"arg\" into int, Friend, or MemberConverter."
====
